---- MODULE Spec2Model ----
(***************************************************************************)
(* Model of mhag.py, the Multi Host Availability Grapher: one invocation   *)
(* of the script reads the configuration, verifies the round robin         *)
(* database, pings every target, computes up times, saves the              *)
(* configuration, updates the database and renders graphs and HTML.        *)
(*                                                                         *)
(* Python values are modelled as follows.                                  *)
(*   str   a sequence of atoms (TLA+ strings); '' is << >>.  Decimal       *)
(*         numbers are spelled digit by digit, so int(), str(), float()    *)
(*         and round() are real conversions.                               *)
(*   dict  a sequence of <<key, value>> pairs in insertion order, keys     *)
(*         being TLA+ strings.                                             *)
(*   list  a sequence.                                                     *)
(***************************************************************************)
EXTENDS Integers, Sequences, FiniteSets, TLC

\* ------------------------------------------------------------------------
\* Bounds of the model
\* ------------------------------------------------------------------------
\* Number of invocations of the script in one behaviour.
MaxRuns == 2
\* Clock resolution: ticks per second (4 gives quarter seconds).
TicksPerSec == 4

\* ------------------------------------------------------------------------
\* Python str
\* ------------------------------------------------------------------------
Digits == <<"0", "1", "2", "3", "4", "5", "6", "7", "8", "9">>

DigitSet == {Digits[i] : i \in 1..10}

DigitVal(c) == (CHOOSE i \in 1..10 : Digits[i] = c) - 1

IsDigits(s) == Len(s) > 0 /\ \A i \in 1..Len(s) : s[i] \in DigitSet

\* int(s) for a string of decimal digits.
RECURSIVE IntOf(_)
IntOf(s) ==
    IF Len(s) = 0 THEN 0
    ELSE 10 * IntOf(SubSeq(s, 1, Len(s) - 1)) + DigitVal(s[Len(s)])

\* str(n) for an integer n.
RECURSIVE StrOfNat(_)
StrOfNat(n) ==
    IF n < 10 THEN <<Digits[n + 1]>>
    ELSE StrOfNat(n \div 10) \o <<Digits[(n % 10) + 1]>>

StrOf(n) == IF n < 0 THEN <<"-">> \o StrOfNat(0 - n) ELSE StrOfNat(n)

RECURSIVE Pow10(_)
Pow10(k) == IF k = 0 THEN 1 ELSE 10 * Pow10(k - 1)

\* Position of the first atom a in s, 0 when absent.
IndexOf(s, a) ==
    IF \E i \in 1..Len(s) : s[i] = a
    THEN CHOOSE i \in 1..Len(s) : s[i] = a /\ \A j \in 1..(i - 1) : s[j] # a
    ELSE 0

\* round(num / den) as Python 3 rounds: to nearest, ties to the even integer.
RoundHalfEven(num, den) ==
    LET q == num \div den
        r == num % den
    IN  IF 2 * r < den THEN q
        ELSE IF 2 * r > den THEN q + 1
        ELSE IF q % 2 = 0 THEN q ELSE q + 1

\* A str the regular expression \d+\.\d+ matched, or ''.
IsFloat(s) ==
    LET d == IndexOf(s, ".")
    IN  /\ d > 1
        /\ d < Len(s)
        /\ IsDigits(SubSeq(s, 1, d - 1))
        /\ IsDigits(SubSeq(s, d + 1, Len(s)))

\* str(round(float(s))) for s = "<digits>.<digits>".
RoundFloatStr(s) ==
    LET d    == IndexOf(s, ".")
        ip   == IntOf(SubSeq(s, 1, d - 1))
        fr   == SubSeq(s, d + 1, Len(s))
        den  == Pow10(Len(fr))
    IN  StrOf(RoundHalfEven(ip * den + IntOf(fr), den))

\* ------------------------------------------------------------------------
\* Python dict
\* ------------------------------------------------------------------------
Keys(d) == {d[i][1] : i \in 1..Len(d)}

Has(d, k) == k \in Keys(d)

Get(d, k) == d[CHOOSE i \in 1..Len(d) : d[i][1] = k][2]

\* d[k] = v
Put(d, k, v) ==
    IF Has(d, k)
    THEN [i \in 1..Len(d) |-> IF d[i][1] = k THEN <<k, v>> ELSE d[i]]
    ELSE Append(d, <<k, v>>)

\* d.update(e)
RECURSIVE Update(_, _)
Update(d, e) ==
    IF Len(e) = 0 THEN d
    ELSE Update(Put(d, e[1][1], e[1][2]), Tail(e))

\* del d[k]
Del(d, k) == SelectSeq(d, LAMBDA p : p[1] # k)

\* poldic[target].update(e) / cfgdic[target][field] = v
UpdateEntry(d, target, e) == Put(d, target, Update(Get(d, target), e))

\* Every target identifier of the model, in the order sorted() gives strings.
KeyOrder == <<"Cloudflare", "Google", "OpenDNS", "Router">>

\* sorted(dic.keys())
SortedKeys(d) == SelectSeq(KeyOrder, LAMBDA k : Has(d, k))

\* ------------------------------------------------------------------------
\* Output of one ping process
\* ------------------------------------------------------------------------
\* Standard output is a sequence of lexemes: the six tokens of
\* token_specification, and other text ("TEXT") no token matches.
\* v holds the strings the token's groups capture.
Lexeme(kind, v) == [kind |-> kind, v |-> v]

UNKNOWN == <<"UNKNOWN">>

\* The text of a lexeme.
RECURSIVE Concat(_)
Concat(ss) == IF Len(ss) = 0 THEN << >> ELSE ss[1] \o Concat(Tail(ss))

\* 'PING' in out.decode('utf-8')
HasPING(out) ==
    \E i \in 1..Len(out) :
        \/ out[i].kind = "HOST"
        \/ out[i].kind = "TEXT" /\ \E j \in 1..Len(out[i].v[1]) : out[i].v[1][j] = "PING"

\* One element of tokens_re.findall(): the outer group and the nine groups of
\* token_specification; a group that took no part in the match is ''.
Groups(lex) ==
    LET w == Concat(lex.v)
        e == << >>
    IN  CASE lex.kind = "HOST" -> <<w, lex.v[1], e, e, e, e, e, e, e, e>>
          [] lex.kind = "IP"   -> <<w, e, lex.v[1], e, e, e, e, e, e, e>>
          [] lex.kind = "TX"   -> <<w, e, e, lex.v[1], e, e, e, e, e, e>>
          [] lex.kind = "RX"   -> <<w, e, e, e, lex.v[1], e, e, e, e, e>>
          [] lex.kind = "LOSS" -> <<w, e, e, e, e, lex.v[1], e, e, e, e>>
          [] lex.kind = "RTT"  -> <<w, e, e, e, e, e, lex.v[1], lex.v[2], lex.v[3], lex.v[4]>>

\* tokens_re.findall(out.decode('utf-8'))
RECURSIVE Findall(_)
Findall(out) ==
    IF Len(out) = 0 THEN << >>
    ELSE IF out[1].kind = "TEXT" THEN Findall(Tail(out))
    ELSE <<Groups(out[1])>> \o Findall(Tail(out))

\* match[i][j] with Python's indices from 0.
At(match, i, j) == match[i + 1][j + 1]

\* The fields parse_ping stores for a failed probe.
FailedSample(now) ==
    << <<"IP", UNKNOWN>>, <<"TX", UNKNOWN>>, <<"RX", UNKNOWN>>,
       <<"AVAIL", <<"0">> >>, <<"LASTFAIL", now>>,
       <<"MINRTT", UNKNOWN>>, <<"AVGRTT", UNKNOWN>>, <<"MAXRTT", UNKNOWN>>,
       <<"MDEV", UNKNOWN>> >>

\* A change of Availability: the loss taken for the availability.
AvailabilityIsLoss(loss) == StrOf(IntOf(loss))

\* str(100 - int(loss)), the availability for a loss percentage.
Availability(loss) == StrOf(100 - IntOf(loss))

\* The branch of parse_ping taken when findall() matched something.
\* Returns the exception raised ("" for none) and the updated poldic.
ParseMatch(poldic, key, match, now) ==
    IF Len(match) < 4
    THEN [exc |-> "IndexError", poldic |-> poldic]
    ELSE LET p1 == UpdateEntry(poldic, key,
                       << <<"IP", At(match, 1, 2)>>, <<"TX", At(match, 2, 3)>>,
                          <<"RX", At(match, 3, 4)>> >>)
         IN  IF Len(match) < 5
             THEN [exc |-> "IndexError", poldic |-> p1]
             ELSE IF ~IsDigits(At(match, 4, 5))
             THEN [exc |-> "ValueError", poldic |-> p1]
             ELSE LET avail == Availability(At(match, 4, 5))
                      p2    == UpdateEntry(p1, key, << <<"AVAIL", avail>> >>)
                  IN  IF avail = <<"0">>
                      THEN [exc |-> "",
                            poldic |-> UpdateEntry(p2, key,
                                << <<"MINRTT", UNKNOWN>>, <<"AVGRTT", UNKNOWN>>,
                                   <<"MAXRTT", UNKNOWN>>, <<"MDEV", UNKNOWN>>,
                                   <<"LASTFAIL", now>> >>)]
                      ELSE IF Len(match) < 6
                      THEN [exc |-> "IndexError", poldic |-> p2]
                      ELSE IF \E j \in 6..9 : ~IsFloat(At(match, 5, j))
                      THEN [exc |-> "ValueError", poldic |-> p2]
                      ELSE [exc |-> "",
                            poldic |-> UpdateEntry(p2, key,
                                << <<"MINRTT", RoundFloatStr(At(match, 5, 6))>>,
                                   <<"AVGRTT", RoundFloatStr(At(match, 5, 7))>>,
                                   <<"MAXRTT", RoundFloatStr(At(match, 5, 8))>>,
                                   <<"MDEV", RoundFloatStr(At(match, 5, 9))>> >>)]

\* A change of ErrorReported: standard error is not looked at.
ErrorIgnored(err) == FALSE

\* "if err:", whether the ping wrote anything to standard error.
ErrorReported(err) == err # << >>

\* parse_ping(poldic, key, out, err); now is STR_DATETIME.
ParsePing(poldic, key, out, err, now) ==
    IF ErrorReported(err)
    THEN [exc |-> "", poldic |-> UpdateEntry(poldic, key, FailedSample(now))]
    ELSE IF HasPING(out)
    THEN IF Findall(out) # << >>
         THEN ParseMatch(poldic, key, Findall(out), now)
         ELSE [exc |-> "", poldic |-> UpdateEntry(poldic, key, FailedSample(now))]
    ELSE [exc |-> "", poldic |-> poldic]


\* ------------------------------------------------------------------------
\* Time
\* ------------------------------------------------------------------------
\* The clock counts ticks.  str(datetime.now()) prints the whole seconds and,
\* only when the sub-second part is not zero, a "." and the sub-second part.
StrDatetime(t) ==
    StrOf(t \div TicksPerSec)
        \o (IF t % TicksPerSec = 0 THEN << >> ELSE <<".">> \o StrOf(t % TicksPerSec))

\* str(int(time.time()))
StrEpoch(t) == StrOf(t \div TicksPerSec)

\* Whether datetime.strptime(s, "%Y-%m-%d %H:%M:%S.%f") accepts s.
StrptimeOk(s) == IsFloat(s)

\* datetime.strptime(s, "%Y-%m-%d %H:%M:%S.%f"), in ticks.
Strptime(s) ==
    LET d == IndexOf(s, ".")
    IN  IntOf(SubSeq(s, 1, d - 1)) * TicksPerSec + IntOf(SubSeq(s, d + 1, Len(s)))

Pad2(n) == IF n < 10 THEN <<"0">> \o StrOf(n) ELSE StrOf(n)

\* datetime.now().strftime("%H:%M:%S") at tick t.
ClockText(t) ==
    LET sec == (t \div TicksPerSec) % 86400
    IN  Pad2(sec \div 3600) \o <<":">> \o Pad2((sec \div 60) % 60)
            \o <<":">> \o Pad2(sec % 60)

\* The uptime string of calc_uptime for a last failure at tick lastfail,
\* read at tick t.
UptimeText(lastfail, t) ==
    LET delta  == IF t >= lastfail THEN t - lastfail ELSE lastfail - t
        secsT  == delta % (60 * TicksPerSec)
        mins0  == delta \div (60 * TicksPerSec)
        mins   == mins0 % 60
        hours0 == mins0 \div 60
        hours  == hours0 % 12
        days   == hours0 \div 12
    IN  ClockText(t) \o <<" UP (since last ping fail) for ">>
          \o (IF days > 0 THEN StrOf(days) \o <<" days, ">> ELSE << >>)
          \o (IF hours > 0 THEN StrOf(hours) \o <<" hours, ">> ELSE << >>)
          \o (IF mins > 0 THEN StrOf(mins) \o <<" minutes, ">> ELSE << >>)
          \o (IF secsT > 0
              THEN StrOf(RoundHalfEven(secsT, TicksPerSec)) \o <<" seconds">>
              ELSE << >>)
          \o <<".">>

\* The loop of calc_uptime over the targets in keys, the clock reading t.
\* Returns the exception raised ("" for none) and the updated cfgdic.
RECURSIVE CalcUptimeLoop(_, _, _)
CalcUptimeLoop(cfgdic, keys, t) ==
    IF Len(keys) = 0 THEN [exc |-> "", cfgdic |-> cfgdic]
    ELSE LET entry == Get(cfgdic, keys[1])
         IN  IF ~Has(entry, "LASTFAIL")
             THEN [exc |-> "KeyError", cfgdic |-> cfgdic]
             ELSE IF ~StrptimeOk(Get(entry, "LASTFAIL"))
             THEN [exc |-> "ValueError", cfgdic |-> cfgdic]
             ELSE CalcUptimeLoop(
                      UpdateEntry(cfgdic, keys[1],
                          << <<"UPTIME", UptimeText(Strptime(Get(entry, "LASTFAIL")), t)>> >>),
                      Tail(keys), t)

\* calc_uptime(cfgdic)
CalcUptime(cfgdic, t) == CalcUptimeLoop(cfgdic, SortedKeys(cfgdic), t)

\* ------------------------------------------------------------------------
\* The configuration file: JSON text as a sequence of tokens <<tag, str>>
\* ------------------------------------------------------------------------
Tok(tag, s) == <<tag, s>>

RECURSIVE DumpFields(_)
DumpFields(fd) ==
    IF Len(fd) = 0 THEN <<Tok("}", << >>)>>
    ELSE <<Tok("key", <<fd[1][1]>>), Tok("str", fd[1][2])>> \o DumpFields(Tail(fd))

RECURSIVE DumpDict(_)
DumpDict(d) ==
    IF Len(d) = 0 THEN <<Tok("}", << >>)>>
    ELSE <<Tok("key", <<d[1][1]>>), Tok("{", << >>)>> \o DumpFields(d[1][2])
             \o DumpDict(Tail(d))

\* json.dumps([cfgdic, gfxdic], indent=4)
JsonDumps(cfgdic, gfxdic) ==
    <<Tok("[", << >>), Tok("{", << >>)>> \o DumpDict(cfgdic)
        \o <<Tok("{", << >>)>> \o DumpDict(gfxdic) \o <<Tok("]", << >>)>>

\* Reads the members of an inner object from position i (after its "{").
RECURSIVE LoadFields(_, _, _)
LoadFields(toks, i, acc) ==
    IF toks[i][1] = "}" THEN [val |-> acc, next |-> i + 1]
    ELSE LoadFields(toks, i + 2, Put(acc, toks[i][2][1], toks[i + 1][2]))

\* Reads the members of an outer object from position i (after its "{").
RECURSIVE LoadDict(_, _, _)
LoadDict(toks, i, acc) ==
    IF toks[i][1] = "}" THEN [val |-> acc, next |-> i + 1]
    ELSE LET r == LoadFields(toks, i + 2, << >>)
         IN  LoadDict(toks, r.next, Put(acc, toks[i][2][1], r.val))

\* json.load(cfile): the list of the two dictionaries.
JsonLoad(toks) ==
    LET a == LoadDict(toks, 3, << >>)
        b == LoadDict(toks, a.next + 1, << >>)
    IN  <<a.val, b.val>>

\* sorted(gfxdic.items(), key=lambda x: int(x[1]['step'])): a stable sort.
RECURSIVE InsertByStep(_, _)
InsertByStep(sorted, item) ==
    IF Len(sorted) = 0 THEN <<item>>
    ELSE IF IntOf(Get(item[2], "step")) < IntOf(Get(sorted[1][2], "step"))
    THEN <<item>> \o sorted
    ELSE <<sorted[1]>> \o InsertByStep(Tail(sorted), item)

RECURSIVE SortByStepFrom(_, _)
SortByStepFrom(acc, items) ==
    IF Len(items) = 0 THEN acc
    ELSE SortByStepFrom(InsertByStep(acc, items[1]), Tail(items))

\* A change of SortByStep: the dictionary left in its own order.
SortByStepOmitted(gfxdic) == gfxdic

\* OrderedDict(sorted(gfxdic.items(), key=lambda x: int(x[1]['step'])))
SortByStep(gfxdic) == SortByStepFrom(<< >>, gfxdic)


\* ------------------------------------------------------------------------
\* Defaults of read_config
\* ------------------------------------------------------------------------
DefaultTarget(fqdn, now) ==
    << <<"FQDN", <<fqdn>> >>, <<"COUNT", <<"5">> >>, <<"LASTFAIL", now>> >>

DefaultTargets(now) ==
    << <<"Cloudflare", DefaultTarget("one.one.one.one", now)>>,
       <<"Google", DefaultTarget("google-public-dns-a.google.com", now)>>,
       <<"OpenDNS", DefaultTarget("resolver1.opendns.com", now)>> >>

GraphInterval(rra, interval, duration, step, xgrid) ==
    << <<"rra", <<rra>> >>, <<"interval", <<interval>> >>,
       <<"duration", <<duration>> >>, <<"step", StrOf(step)>>,
       <<"xgrid", <<xgrid>> >> >>

DefaultGraphs ==
    << <<"1mx12h", GraphInterval("LAST", "1m", "12h", 60, "MINUTE:5:MINUTE:15:HOUR:2")>>,
       <<"5mx24h", GraphInterval("AVERAGE", "5m", "24h", 300, "MINUTE:5:MINUTE:15:HOUR:4")>>,
       <<"30mx7d", GraphInterval("AVERAGE", "30m", "7d", 1800, "MINUTE:30:HOUR:4:HOUR:24")>>,
       <<"2hx28d", GraphInterval("AVERAGE", "2h", "28d", 7200, "HOUR:2:DAY:1:DAY:7")>>,
       <<"1dx365d", GraphInterval("AVERAGE", "1d", "365d", 86400, "HOUR:24:DAY:7:DAY:30")>> >>

\* read_config(cfgfile, cfgdic, gfxdic) on empty dictionaries.  file is the
\* file's content in a one-element sequence, or << >> when there is no file.
\* Returns the dictionaries and the file as read_config leaves it.
ReadConfigResult(file, now) ==
    LET found  == file # << >>
        loaded == JsonLoad(file[1])
        cfgdic == IF found THEN Update(<< >>, loaded[1]) ELSE DefaultTargets(now)
        gfx0   == IF found THEN Update(<< >>, loaded[2]) ELSE << >>
        gfxdic == IF gfx0 = << >> THEN DefaultGraphs ELSE gfx0
        need2write == ~found \/ gfx0 = << >>
    IN  [cfgdic |-> cfgdic,
         gfxdic |-> gfxdic,
         missing |-> ~found,
         file   |-> IF need2write
                    THEN <<JsonDumps(cfgdic, SortByStep(gfxdic))>>
                    ELSE file]

\* ------------------------------------------------------------------------
\* Command line arguments and paths
\* ------------------------------------------------------------------------
\* re.search('/$', s)
EndsWithSlash(s) == Len(s) > 0 /\ s[Len(s)] = "/"

\* re.search(r'.json$', s): "json" at the end, after any one character.
\* The text "json" is always an atom of its own.
EndsWithAnyJson(s) == Len(s) >= 2 /\ s[Len(s)] = "json"

\* s.replace('json', 'rrd')
ReplaceJson(s) == [i \in 1..Len(s) |-> IF s[i] = "json" THEN "rrd" ELSE s[i]]

\* Lines 94-110 of main: the options as the rest of the script reads them.
MainArgs(argv) ==
    LET htmldir == IF EndsWithSlash(argv.htmldir) THEN argv.htmldir
                   ELSE argv.htmldir \o <<"/">>
        datadir == IF EndsWithSlash(argv.datadir) THEN argv.datadir
                   ELSE argv.datadir \o <<"/">>
        cfgfile == IF EndsWithAnyJson(argv.cfgfile) THEN argv.cfgfile
                   ELSE argv.cfgfile \o <<".", "json">>
        dbfile  == ReplaceJson(cfgfile)
    IN  [DEBUG   |-> argv.DEBUG,
         htmldir |-> htmldir,
         datadir |-> datadir,
         cfgfile |-> IF datadir # << >> THEN datadir \o cfgfile ELSE cfgfile,
         dbfile  |-> IF datadir # << >> THEN datadir \o dbfile ELSE dbfile]

\* ------------------------------------------------------------------------
\* rrdtool command lines
\* ------------------------------------------------------------------------
RRDTOOL == "/usr/bin/rrdtool"
GREP == "/bin/grep"
PING == "/bin/ping"

\* The info command of verify_rrd.
InfoCmd(dbfile) == <<RRDTOOL, " info ">> \o dbfile \o <<" |", GREP, " index">>

\* A change of CreateDS: the availability series left out.
RECURSIVE CreateDSLatencyOnly(_)
CreateDSLatencyOnly(keys) ==
    IF Len(keys) = 0 THEN << >>
    ELSE <<"DS:", keys[1], "-AVRTT", ":GAUGE:65:1:2000 ">>
           \o CreateDSLatencyOnly(Tail(keys))

\* The data series of the create command, two a target.
RECURSIVE CreateDS(_)
CreateDS(keys) ==
    IF Len(keys) = 0 THEN << >>
    ELSE <<"DS:", keys[1], "-AVRTT", ":GAUGE:65:1:2000 ",
           "DS:", keys[1], "-AVAIL", ":GAUGE:65:0:100 ">> \o CreateDS(Tail(keys))

\* The create command of verify_rrd.
CreateCmd(cfgdic, dbfile) ==
    <<RRDTOOL, " create ">> \o dbfile \o <<" --step 1m ">>
        \o CreateDS(SortedKeys(cfgdic))
        \o <<"RRA:LAST:0:1:365d ", "RRA:AVERAGE:0.5:5m:24h ", "RRA:AVERAGE:0.5:30m:7d ",
             "RRA:AVERAGE:0.5:2h:28d ", "RRA:AVERAGE:0.5:1d:365d ">>

\* re.sub(r":$", repl, cmd)
SubTrailingColon(cmd, repl) ==
    IF Len(cmd) > 0 /\ cmd[Len(cmd)] = ":"
    THEN SubSeq(cmd, 1, Len(cmd) - 1) \o repl
    ELSE cmd

RECURSIVE UpdateNames(_)
UpdateNames(keys) ==
    IF Len(keys) = 0 THEN << >>
    ELSE <<keys[1], "-AVRTT", ":", keys[1], "-AVAIL", ":">> \o UpdateNames(Tail(keys))

\* A change of UpdateValues: the availability listed before the latency.
RECURSIVE UpdateValuesAvailFirst(_, _)
UpdateValuesAvailFirst(poldic, keys) ==
    IF Len(keys) = 0 THEN << >>
    ELSE Get(Get(poldic, keys[1]), "AVAIL") \o <<":">>
           \o Get(Get(poldic, keys[1]), "AVGRTT") \o <<":">>
           \o UpdateValuesAvailFirst(poldic, Tail(keys))

\* The values of the update command, two a target.
RECURSIVE UpdateValues(_, _)
UpdateValues(poldic, keys) ==
    IF Len(keys) = 0 THEN << >>
    ELSE Get(Get(poldic, keys[1]), "AVGRTT") \o <<":">>
           \o Get(Get(poldic, keys[1]), "AVAIL") \o <<":">>
           \o UpdateValues(poldic, Tail(keys))

\* The path update_database names.
UpdatePath(args) == ReplaceJson(args.cfgfile)

\* Whether building the update command raises KeyError.
UpdateKeyError(poldic) ==
    \E k \in Keys(poldic) :
        ~Has(Get(poldic, k), "AVGRTT") \/ ~Has(Get(poldic, k), "AVAIL")

\* The update command of update_database; epoch is STR_EPOCTIME.
UpdateCmd(poldic, args, epoch) ==
    SubTrailingColon(
        SubTrailingColon(
            <<RRDTOOL, " update ">> \o UpdatePath(args) \o <<" --template ">>
                \o UpdateNames(SortedKeys(poldic)),
            <<" ">>)
          \o epoch \o <<":">> \o UpdateValues(poldic, SortedKeys(poldic)),
        << >>)


\* ------------------------------------------------------------------------
\* rrdtool as the script's commands drive it
\* ------------------------------------------------------------------------
\* s.split(sep)
RECURSIVE Split(_, _)
Split(s, sep) ==
    LET i == IndexOf(s, sep)
    IN  IF i = 0 THEN <<s>>
        ELSE <<SubSeq(s, 1, i - 1)>> \o Split(SubSeq(s, i + 1, Len(s)), sep)

\* The data series a create command declares, in order.
DsOfCreate(cmd) ==
    LET at == SelectSeq([i \in 1..Len(cmd) |-> i], LAMBDA i : cmd[i] = "DS:")
    IN  [n \in 1..Len(at) |-> <<cmd[at[n] + 1], cmd[at[n] + 2]>>]

\* The series names an update command lists after --template.
TemplateOf(cmd) ==
    LET t    == IndexOf(cmd, " --template ")
        rest == SubSeq(cmd, t + 1, Len(cmd))
        sp   == IndexOf(rest, " ")
    IN  IF sp <= 1 THEN << >> ELSE Split(SubSeq(rest, 1, sp - 1), ":")

\* The timestamp and the values an update command lists after the template.
RowOf(cmd) ==
    LET t    == IndexOf(cmd, " --template ")
        rest == SubSeq(cmd, t + 1, Len(cmd))
        sp   == IndexOf(rest, " ")
    IN  Split(SubSeq(rest, sp + 1, Len(rest)), ":")

Range(s) == {s[i] : i \in 1..Len(s)}

\* A round robin database file: the data series it was created with.  The rows
\* it stores are never read back by the script.
RrdFile(ds) == [ds |-> ds]

\* Whether rrdtool can apply an update command to the files it has.
CanUpdate(files, path, cmd) ==
    /\ Has(files, path)
    /\ Range(TemplateOf(cmd)) \subseteq Range(Get(files, path).ds)

\* ------------------------------------------------------------------------
\* Graph commands and HTML pages
\* ------------------------------------------------------------------------
GRAPH_WIDTH == <<"3", "9", "8">>
GRAPH_HEIGHT == <<"2", "4", "6">>

\* 'graph-' + intdur, a key of poldic[target].
GraphKey(intdur) ==
    CASE intdur = "1mx12h"  -> "graph-1mx12h"
      [] intdur = "5mx24h"  -> "graph-5mx24h"
      [] intdur = "30mx7d"  -> "graph-30mx7d"
      [] intdur = "2hx28d"  -> "graph-2hx28d"
      [] intdur = "1dx365d" -> "graph-1dx365d"

\* ARGS.htmldir + target + intdur + ".png"
PngPath(args, target, intdur) == args.htmldir \o <<target, intdur, ".png">>

\* build_graph_command(): the argument list; t is the clock reading of
\* datetime.now().strftime("%c").
BuildGraphCommand(poldic, gfxdic, args, target, intdur, t) ==
    LET g == Get(gfxdic, intdur)
        e == Get(poldic, target)
    IN  << <<RRDTOOL>>, <<"graph">>, PngPath(args, target, intdur),
           <<"-w">> \o GRAPH_WIDTH \o <<" -h">> \o GRAPH_HEIGHT, <<"-aPNG">>,
           <<"--start">>, <<"-">> \o Get(g, "duration"), <<"--end">>, <<"now">>,
           <<"--font">>, <<"DEFAULT:7:">>, <<"--title">>,
           <<"Multi Host Availability Grapher - ", target, " (", intdur, ")">>,
           <<"--watermark">>,
           StrEpoch(t) \o <<" - ">> \o Get(e, "FQDN") \o <<" [">> \o Get(e, "IP") \o <<"]">>,
           <<"--vertical-label">>, <<"Round Trip Time latency(ms)">>,
           <<"--right-axis-label">>, <<"Availability (%)">>,
           <<"--lower-limit">>, <<"0">>, <<"--right-axis">>, <<"1:0">>,
           <<"--x-grid">>, Get(g, "xgrid") \o <<":0:%R">>,
           <<"--alt-y-grid">>, <<"--rigid">>,
           <<"DEF:", target, "AVRTT=">> \o args.dbfile \o <<":", target, "-AVRTT", ":">>
               \o Get(g, "rra") \o <<":step=">> \o Get(g, "step"),
           <<"DEF:", target, "AVAIL=">> \o args.dbfile \o <<":", target, "-AVAIL", ":">>
               \o Get(g, "rra") \o <<":step=">> \o Get(g, "step"),
           <<"CDEF:AVAIL1=", target, "AVAIL,0,20,LIMIT,UN,UNKN,INF,IF">>,
           <<"CDEF:AVAIL2=", target, "AVAIL,21,40,LIMIT,UN,UNKN,INF,IF">>,
           <<"CDEF:AVAIL3=", target, "AVAIL,39,79,LIMIT,UN,UNKN,INF,IF">>,
           <<"CDEF:AVAIL4=", target, "AVAIL,80,99,LIMIT,UN,UNKN,INF,IF">>,
           <<"CDEF:AVAIL5=", target, "AVAIL,100,100,LIMIT,UN,UNKN,INF,IF">>,
           <<"COMMENT:Availability\\:">>,
           <<"AREA:AVAIL1#FF0000:0-20%">>, <<"AREA:AVAIL2#FFFF00:21-40%">>,
           <<"AREA:AVAIL3#FF8000:39-79%">>, <<"AREA:AVAIL4#00FFFF:80-99%">>,
           <<"AREA:AVAIL5#00FF00:100%">>,
           <<"LINE1:", target, "AVRTT#0000ff:RTT latency ms">>,
           <<"GPRINT:", target, "AVRTT:LAST:Current RTT\\: %5.2lf ms">>,
           <<"GPRINT:", target, "AVRTT:AVERAGE:Avg RTT\\: %5.2lf ms">>,
           <<"GPRINT:", target, "AVRTT:MAX:Max RTT\\: %5.2lf ms">>,
           <<"GPRINT:", target, "AVRTT:MIN:Min RTT\\: %5.2lf ms">> >>

\* The pairs <<target, intdur>> in the order gen_graphs launches them.
RECURSIVE GraphJobs(_, _)
GraphJobs(keys, ivs) ==
    IF Len(keys) = 0 THEN << >>
    ELSE [j \in 1..Len(ivs) |-> <<keys[1], ivs[j][1]>>] \o GraphJobs(Tail(keys), ivs)

\* poldic after gen_graphs: build_graph_command stores the graph's path, the
\* child process stored under the interval's name is deleted again.
RECURSIVE GraphPaths(_, _, _)
GraphPaths(poldic, args, jobs) ==
    IF Len(jobs) = 0 THEN poldic
    ELSE GraphPaths(
             UpdateEntry(poldic, jobs[1][1],
                 << <<GraphKey(jobs[1][2]), PngPath(args, jobs[1][1], jobs[1][2])>> >>),
             args, Tail(jobs))

\* The files gen_html_index writes: the index and one page a target.
HtmlPages(poldic, args) ==
    <<args.htmldir \o <<"/", "mhag.html">>>>
        \o [i \in 1..Len(SortedKeys(poldic)) |->
               args.htmldir \o <<"/", SortedKeys(poldic)[i], ".html">>]


\* ------------------------------------------------------------------------
\* The outputs a ping process can leave (inputs of the model)
\* ------------------------------------------------------------------------
\* n tenths printed with one decimal.
Dec1(n) == StrOf(n \div 10) \o <<".">> \o StrOf(n % 10)

PingHeader ==
    << Lexeme("HOST", << <<"PING ", "host.example", " (">> >>),
       Lexeme("IP", << <<"192.0.2.1">> >>),
       Lexeme("TEXT", << <<") 56(84) bytes of data. --- ping statistics ---">> >>) >>

PingCounts(tx, rx, loss) ==
    << Lexeme("TX", <<StrOf(tx)>>), Lexeme("RX", <<StrOf(rx)>>),
       Lexeme("LOSS", <<StrOf(loss)>>), Lexeme("TEXT", << <<"time 4005ms">> >>) >>

PingRtt(min, avg, max, mdev) ==
    << Lexeme("RTT", <<Dec1(min), Dec1(avg), Dec1(max), Dec1(mdev)>>) >>

\* name -> [out |-> standard output, err |-> standard error]
PingOutput(name) ==
    CASE name = "ok" ->
           [out |-> PingHeader \o PingCounts(5, 5, 0) \o PingRtt(101, 123, 150, 12),
            err |-> << >>]
      [] name = "lossy" ->
           [out |-> PingHeader \o PingCounts(5, 3, 40) \o PingRtt(105, 125, 135, 5),
            err |-> << >>]
      [] name = "down" ->
           [out |-> PingHeader \o PingCounts(5, 0, 100), err |-> << >>]
      [] name = "error" ->
           [out |-> << >>, err |-> <<"ping: unknown host">>]
      [] name = "error_stats" ->
           [out |-> PingHeader \o PingCounts(5, 5, 0) \o PingRtt(101, 123, 150, 12),
            err |-> <<"ping: Warning: source address might be selected on other device">>]
      [] name = "silent" ->
           [out |-> << >>, err |-> << >>]
      [] name = "garbled" ->
           [out |-> << Lexeme("TEXT", << <<"PING", ": usage error">> >>) >>, err |-> << >>]
      [] name = "nohost" ->
           [out |-> << Lexeme("TEXT", << <<"PING", " host.example(2001:db8::1) 56 data bytes">> >>) >>
                      \o PingCounts(5, 5, 0) \o PingRtt(101, 123, 150, 12),
            err |-> << >>]

OutputNames ==
    {"ok", "lossy", "down", "error", "error_stats", "silent", "garbled", "nohost"}

\* ------------------------------------------------------------------------
\* State
\* ------------------------------------------------------------------------
VARIABLES
    argv,          \* the command line options as given
    ARGS,          \* the options as main rewrites them
    clock,         \* wall clock, in ticks
    STR_DATETIME,  \* str(datetime.now()) at the start of the invocation
    STR_EPOCTIME,  \* str(int(time.time())) at the start of the invocation
    pc,            \* position of the control thread in main
    exc,           \* the exception that ended the invocation, "" for none
    cfg_dict,      \* main's cfg_dict
    gfx_dict,      \* main's gfx_dict
    pol_dict,      \* main's pol_dict
    idx,           \* position of the current loop of ping_hosts
    running,       \* targets whose ping process runs
    exited,        \* targets whose ping process has exited
    outs,          \* dict target -> name of the output read from its ping
    cfgFile,       \* the configuration file: <<content>>, << >> when absent
    rrdFiles,      \* dict path -> round robin database file
    cmds,          \* the rrdtool commands of this invocation, in order
    stderr,        \* what dbug printed in this invocation
    html,          \* files written under the html directory
    saved,         \* <<content>> written by main's save in this invocation
    run,           \* number of this invocation
    runStart,      \* the configuration file as this invocation found it
    ref,           \* the invocation being repeated: << >> or <<record>>
    harness,       \* whether a test harness repeats invocations (else cron)
    written        \* <<the dictionaries the script last wrote to cfgFile>>

vars ==
    <<argv, ARGS, clock, STR_DATETIME, STR_EPOCTIME, pc, exc, cfg_dict, gfx_dict,
      pol_dict, idx, running, exited, outs, cfgFile, rrdFiles, cmds, stderr, html,
      saved, run, runStart, ref, harness, written>>

\* dbug(msg): printed only in debug mode.
Dbug(log, args, msg) == IF args.DEBUG THEN Append(log, msg) ELSE log

\* A command handed to the shell, the path it names and its exit status.
Command(verb, path, cmd, status) ==
    [verb |-> verb, path |-> path, cmd |-> cmd, status |-> status]

\* ------------------------------------------------------------------------
\* Initial states
\* ------------------------------------------------------------------------
\* Clock readings at which the first invocation may start: one with a
\* sub-second part, one on a whole second.
StartClocks == {1000000 * TicksPerSec + 1, 1000000 * TicksPerSec}

\* Last failures recorded before the first invocation, as ticks.
PriorFails ==
    {1000000 * TicksPerSec - (38 * TicksPerSec + 2),
     1000000 * TicksPerSec - ((13 * 3600 + 5 * 60) * TicksPerSec + 1)}

\* Time the script takes to reach calc_uptime, in ticks.
PingDelays == {4 * TicksPerSec, 4 * TicksPerSec + 1}

\* Time between two invocations, in ticks.
RunGaps == {60 * TicksPerSec}

TargetEntry(fqdn, lastfail) ==
    << <<"FQDN", <<fqdn>> >>, <<"COUNT", <<"5">> >>, <<"LASTFAIL", lastfail>> >>

\* A configuration as the script left it: one target, the default intervals.
FileOne(lastfail) ==
    JsonDumps(<< <<"Google", TargetEntry("8.8.8.8", StrDatetime(lastfail))>> >>,
              DefaultGraphs)

\* A configuration edited by hand: two targets out of order, one with a field
\* the script does not know and the fields of an earlier run, and two
\* intervals out of order.
FileEdited ==
    JsonDumps(
        << <<"Router",
             TargetEntry("192.168.1.1", StrDatetime(1000000 * TicksPerSec - 7))
                 \o << <<"NOTE", <<"basement">> >>,
                       <<"LASTPOLL", StrDatetime(1000000 * TicksPerSec - 3)>>,
                       <<"UPTIME", <<"old">> >> >> >>,
           <<"Cloudflare",
             TargetEntry("one.one.one.one", StrDatetime(1000000 * TicksPerSec - 9))>> >>,
        << DefaultGraphs[2], DefaultGraphs[1] >>)

\* A configuration without intervals whose last failure fell on a whole second.
FileNoGraphs ==
    JsonDumps(<< <<"Google", TargetEntry("8.8.8.8", StrDatetime(999000 * TicksPerSec))>> >>,
              << >>)

\* The configuration files an invocation may find.
ConfigFiles ==
    {<<FileEdited>>, <<FileNoGraphs>>} \cup {<<FileOne(t)>> : t \in PriorFails}

\* No configuration file.
NoFile == << >>

RECURSIVE DsFor(_)
DsFor(keys) ==
    IF Len(keys) = 0 THEN << >>
    ELSE << <<keys[1], "-AVRTT">>, <<keys[1], "-AVAIL">> >> \o DsFor(Tail(keys))

\* The database files that may exist at the path verify_rrd looks at.
RrdStates(path) ==
    {<< >>,
     << <<path, RrdFile(DsFor(<<"Google">>))>> >>,
     << <<path, RrdFile(DsFor(<<"Cloudflare", "Google", "OpenDNS">>))>> >>}

DefaultArgv(debug) ==
    [cfgfile |-> <<"mhag", ".", "json">>,
     datadir |-> <<"/home/pi/data">>,
     htmldir |-> <<"/var/www/html/graphs">>,
     DEBUG   |-> debug]

\* Configuration file names and data directories given on the command line.
CfgNames ==
    {<<"mhag", ".", "json">>, <<"hosts">>, <<"json", "-hosts", ".", "json">>, <<"my", "json">>}

DataDirs == {<<"/home/pi/data">>, <<"/srv/", "json", "/">>, << >>}

InitWith(a, t, file, rrd, h) ==
    /\ argv = a
    /\ ARGS = a
    /\ clock = t
    /\ STR_DATETIME = StrDatetime(t)
    /\ STR_EPOCTIME = StrEpoch(t)
    /\ pc = "main"
    /\ exc = ""
    /\ cfg_dict = << >>
    /\ gfx_dict = << >>
    /\ pol_dict = << >>
    /\ idx = 1
    /\ running = {}
    /\ exited = {}
    /\ outs = << >>
    /\ cfgFile = file
    /\ rrdFiles = rrd
    /\ cmds = << >>
    /\ stderr = << >>
    /\ html = << >>
    /\ saved = << >>
    /\ run = 1
    /\ runStart = file
    /\ ref = << >>
    /\ harness = h
    /\ written = << >>

\* The script run from cron on an existing configuration.
Init ==
    \E debug \in BOOLEAN, t \in StartClocks, file \in ConfigFiles :
        \E rrd \in RrdStates(MainArgs(DefaultArgv(debug)).dbfile) :
            InitWith(DefaultArgv(debug), t, file, rrd, FALSE)

\* The script run from cron in a directory without configuration file.
InitFirstRun ==
    \E debug \in BOOLEAN, t \in StartClocks :
        \E rrd \in RrdStates(MainArgs(DefaultArgv(debug)).dbfile) :
            InitWith(DefaultArgv(debug), t, NoFile, rrd, FALSE)

\* The script run twice by a harness on the same configuration and outputs.
InitRepeat ==
    \E t \in StartClocks, file \in {NoFile, <<FileEdited>>, <<FileNoGraphs>>} :
        \E rrd \in RrdStates(MainArgs(DefaultArgv(FALSE)).dbfile) :
            InitWith(DefaultArgv(FALSE), t, file, rrd, TRUE)

\* Times between the last failure on record and the start of the invocation,
\* in ticks: calc_uptime reads the clock a ping delay later, which brings the
\* elapsed time next to a minute, an hour and a 12-hour block.
ElapsedAtStart ==
    {38 * TicksPerSec + 2,
     55 * TicksPerSec + 2,
     56 * TicksPerSec + 1,
     3595 * TicksPerSec + 3,
     (12 * 3600 - 5) * TicksPerSec + 3,
     (12 * 3600 - 4) * TicksPerSec + 1,
     (25 * 3600 + 120 - 4) * TicksPerSec + 1}

\* The script run from cron on a configuration whose target failed last a
\* given time ago.
InitUptime ==
    \E t \in StartClocks, e \in ElapsedAtStart :
        \E rrd \in RrdStates(MainArgs(DefaultArgv(FALSE)).dbfile) :
            InitWith(DefaultArgv(FALSE), t, <<FileOne(t - e)>>, rrd, FALSE)

\* The script run from cron with the options of the command line varied.
InitPaths ==
    \E cfgfile \in CfgNames, datadir \in DataDirs, debug \in BOOLEAN :
        LET a == [DefaultArgv(debug) EXCEPT !.cfgfile = cfgfile, !.datadir = datadir]
        IN  \E rrd \in {<< >>, << <<MainArgs(a).dbfile, RrdFile(DsFor(<<"Google">>))>> >>} :
                \E t \in PriorFails :
                    InitWith(a, 1000000 * TicksPerSec + 1, <<FileOne(t)>>, rrd, FALSE)


\* ------------------------------------------------------------------------
\* Actions: the steps of main
\* ------------------------------------------------------------------------
\* An uncaught exception ends the invocation.
Raise(e) == pc' = "crashed" /\ exc' = e

\* main, lines 94-113: rewrite the options.
Main ==
    /\ pc = "main"
    /\ ARGS' = MainArgs(argv)
    /\ stderr' = Dbug(stderr, MainArgs(argv), "BEGIN degugging info to STDERR")
    /\ pc' = "read_config"
    /\ UNCHANGED <<argv, clock, STR_DATETIME, STR_EPOCTIME, exc, cfg_dict, gfx_dict,
                   pol_dict, idx, running, exited, outs, cfgFile, rrdFiles, cmds,
                   html, saved, run, runStart, ref, harness, written>>

\* read_config(), then pol_dict = deepcopy(cfg_dict).
ReadConfig ==
    /\ pc = "read_config"
    /\ LET r == ReadConfigResult(cfgFile, STR_DATETIME)
       IN  /\ cfg_dict' = r.cfgdic
           /\ gfx_dict' = r.gfxdic
           /\ pol_dict' = r.cfgdic
           /\ cfgFile' = r.file
           /\ written' = IF r.file # cfgFile
                         THEN <<[cfgdic |-> r.cfgdic, gfxdic |-> r.gfxdic]>>
                         ELSE written
           /\ stderr' = IF r.missing
                        THEN Dbug(stderr, ARGS, "Exception: FileNotFoundError")
                        ELSE stderr
    /\ pc' = "verify_rrd"
    /\ UNCHANGED <<argv, ARGS, clock, STR_DATETIME, STR_EPOCTIME, exc, idx, running,
                   exited, outs, rrdFiles, cmds, html, saved, run, runStart, ref, harness>>

\* verify_rrd(): the info command, and the create command when info finds no
\* data series.  created tells whether rrdtool create succeeds.
VerifyRrd(created) ==
    /\ pc = "verify_rrd"
    /\ LET info   == Command("info", ARGS.dbfile, InfoCmd(ARGS.dbfile),
                             IF Has(rrdFiles, ARGS.dbfile) THEN 0 ELSE 1)
           create == Command("create", ARGS.dbfile, CreateCmd(cfg_dict, ARGS.dbfile),
                             IF created THEN 0 ELSE 1)
       IN  IF Has(rrdFiles, ARGS.dbfile)
           THEN /\ created
                /\ cmds' = Append(cmds, info)
                /\ pc' = "launch"
                /\ UNCHANGED <<rrdFiles, stderr, exc>>
           ELSE /\ cmds' = cmds \o <<info, create>>
                /\ stderr' = Dbug(stderr, ARGS, "Exception: subprocess.CalledProcessError")
                /\ IF created
                   THEN /\ rrdFiles' = Put(rrdFiles, ARGS.dbfile,
                                           RrdFile(DsOfCreate(create.cmd)))
                        /\ pc' = "launch"
                        /\ exc' = exc
                   ELSE \* the handler reads output, which was never assigned
                        /\ Raise("UnboundLocalError")
                        /\ UNCHANGED rrdFiles
    /\ idx' = 1
    /\ UNCHANGED <<argv, ARGS, clock, STR_DATETIME, STR_EPOCTIME, cfg_dict, gfx_dict,
                   pol_dict, running, exited, outs, cfgFile, html, saved, run,
                   runStart, ref, harness, written>>

\* ping_hosts(), first loop: launch the ping of the next target.
Launch ==
    /\ pc = "launch"
    /\ LET keys == SortedKeys(pol_dict)
       IN  /\ pol_dict' = UpdateEntry(pol_dict, keys[idx], << <<"PID", <<"<Popen>">> >> >>)
           /\ running' = running \cup {keys[idx]}
           /\ IF idx < Len(keys)
              THEN idx' = idx + 1 /\ pc' = pc
              ELSE idx' = 1 /\ pc' = "wait"
    /\ UNCHANGED <<argv, ARGS, clock, STR_DATETIME, STR_EPOCTIME, exc, cfg_dict,
                   gfx_dict, exited, outs, cfgFile, rrdFiles, cmds, stderr, html,
                   saved, run, runStart, ref, harness, written>>

\* A ping process exits.
ProbeExit(target) ==
    /\ target \in running
    /\ running' = running \ {target}
    /\ exited' = exited \cup {target}
    /\ UNCHANGED <<argv, ARGS, clock, STR_DATETIME, STR_EPOCTIME, pc, exc, cfg_dict,
                   gfx_dict, pol_dict, idx, outs, cfgFile, rrdFiles, cmds, stderr,
                   html, saved, run, runStart, ref, harness, written>>

\* A change of Joined: wait() returns at once.
JoinedAtOnce(target, done) == TRUE

\* poldic[target]['PID'].wait() returns once the target's ping is among
\* the processes that exited.
Joined(target, done) == target \in done

\* ping_hosts(), second loop: wait() returns for the next target.
Wait ==
    /\ pc = "wait"
    /\ LET keys == SortedKeys(pol_dict)
       IN  /\ Joined(keys[idx], exited)
           /\ IF idx < Len(keys)
              THEN idx' = idx + 1 /\ pc' = pc
              ELSE idx' = 1 /\ pc' = "process"
    /\ UNCHANGED <<argv, ARGS, clock, STR_DATETIME, STR_EPOCTIME, exc, cfg_dict,
                   gfx_dict, pol_dict, running, exited, outs, cfgFile, rrdFiles, cmds,
                   stderr, html, saved, run, runStart, ref, harness, written>>

\* A change of LastPoll: the timestamp stored under the wrong key.
LastPollAsLastFail(now) == << <<"LASTFAIL", now>> >>

\* cfgdic[target]['LASTPOLL'] = STR_DATETIME
LastPoll(now) == << <<"LASTPOLL", now>> >>

\* ping_hosts(), third loop: read and parse the output of the next target.
\* An invocation that repeats another reads the outputs that one read.
Process(name) ==
    /\ pc = "process"
    /\ LET keys   == SortedKeys(pol_dict)
           target == keys[idx]
           o      == PingOutput(name)
           r      == ParsePing(pol_dict, target, o.out, o.err, STR_DATETIME)
       IN  /\ ref # << >> => name = Get(ref[1].outs, target)
           /\ outs' = Put(outs, target, name)
           /\ IF r.exc # ""
              THEN /\ Raise(r.exc)
                   /\ pol_dict' = r.poldic
                   /\ UNCHANGED <<cfg_dict, idx>>
              ELSE /\ cfg_dict' = UpdateEntry(cfg_dict, target, LastPoll(STR_DATETIME))
                   /\ pol_dict' = Put(r.poldic, target,
                                      Del(Put(Get(r.poldic, target), "PID", << >>),
                                          "UPTIME"))
                   /\ exc' = exc
                   /\ IF idx < Len(keys)
                      THEN idx' = idx + 1 /\ pc' = pc
                      ELSE idx' = 1 /\ pc' = "calc_uptime"
    /\ UNCHANGED <<argv, ARGS, clock, STR_DATETIME, STR_EPOCTIME, gfx_dict, running,
                   exited, cfgFile, rrdFiles, cmds, stderr, html, saved, run,
                   runStart, ref, harness, written>>

\* calc_uptime(), delay ticks after the clock was last read.
CalcUptimeStep(delay) ==
    /\ pc = "calc_uptime"
    /\ clock' = clock + delay
    /\ LET r == CalcUptime(cfg_dict, clock + delay)
       IN  /\ cfg_dict' = r.cfgdic
           /\ IF r.exc # "" THEN Raise(r.exc) ELSE pc' = "save" /\ exc' = exc
    /\ UNCHANGED <<argv, ARGS, STR_DATETIME, STR_EPOCTIME, gfx_dict, pol_dict, idx,
                   running, exited, outs, cfgFile, rrdFiles, cmds, stderr, html,
                   saved, run, runStart, ref, harness, written>>

\* A change of WriteConfig: the polling copy is written to the file.
WriteConfigPolling ==
    /\ pc = "save"
    /\ cfgFile' = <<JsonDumps(pol_dict, SortByStep(gfx_dict))>>
    /\ saved' = <<JsonDumps(pol_dict, SortByStep(gfx_dict))>>
    /\ written' = <<[cfgdic |-> pol_dict, gfxdic |-> gfx_dict]>>
    /\ pc' = "update_database"
    /\ UNCHANGED <<argv, ARGS, clock, STR_DATETIME, STR_EPOCTIME, exc, cfg_dict,
                   gfx_dict, pol_dict, idx, running, exited, outs, rrdFiles, cmds,
                   stderr, html, run, runStart, ref, harness>>

\* main, lines 131-136: write the configuration file.
WriteConfig ==
    /\ pc = "save"
    /\ cfgFile' = <<JsonDumps(cfg_dict, SortByStep(gfx_dict))>>
    /\ saved' = <<JsonDumps(cfg_dict, SortByStep(gfx_dict))>>
    /\ written' = <<[cfgdic |-> cfg_dict, gfxdic |-> gfx_dict]>>
    /\ pc' = "update_database"
    /\ UNCHANGED <<argv, ARGS, clock, STR_DATETIME, STR_EPOCTIME, exc, cfg_dict,
                   gfx_dict, pol_dict, idx, running, exited, outs, rrdFiles, cmds,
                   stderr, html, run, runStart, ref, harness>>

\* update_database().  updated tells whether rrdtool update succeeds.
UpdateDatabase(updated) ==
    /\ pc = "update_database"
    /\ IF UpdateKeyError(pol_dict)
       THEN /\ updated
            /\ Raise("KeyError")
            /\ UNCHANGED <<rrdFiles, cmds, stderr>>
       ELSE LET path == UpdatePath(ARGS)
                cmd  == UpdateCmd(pol_dict, ARGS, STR_EPOCTIME)
            IN  /\ cmds' = Append(cmds, Command("update", path, cmd,
                                                IF updated THEN 0 ELSE 1))
                /\ updated => CanUpdate(rrdFiles, path, cmd)
                /\ IF updated
                   THEN /\ pc' = "gen_graphs"
                        /\ UNCHANGED <<exc, stderr, rrdFiles>>
                   ELSE \* the handler reads output, which was never assigned
                        /\ stderr' = Dbug(stderr, ARGS,
                                          "Exception: subprocess.CalledProcessError")
                        /\ Raise("UnboundLocalError")
                        /\ UNCHANGED rrdFiles
    /\ UNCHANGED <<argv, ARGS, clock, STR_DATETIME, STR_EPOCTIME, cfg_dict, gfx_dict,
                   pol_dict, idx, running, exited, outs, cfgFile, html, saved, run,
                   runStart, ref, harness, written>>

\* gen_graphs(): one rrdtool graph a target and interval.
GenGraphs ==
    /\ pc = "gen_graphs"
    /\ LET jobs == GraphJobs(SortedKeys(pol_dict), SortByStep(gfx_dict))
       IN  /\ cmds' = cmds \o
                  [j \in 1..Len(jobs) |->
                      Command("graph", ARGS.dbfile,
                          Concat(BuildGraphCommand(pol_dict, gfx_dict, ARGS,
                                                   jobs[j][1], jobs[j][2], clock)),
                          0)]
           /\ pol_dict' = GraphPaths(pol_dict, ARGS, jobs)
           /\ html' = html \o [j \in 1..Len(jobs) |-> PngPath(ARGS, jobs[j][1], jobs[j][2])]
    /\ pc' = "gen_html_index"
    /\ UNCHANGED <<argv, ARGS, clock, STR_DATETIME, STR_EPOCTIME, exc, cfg_dict,
                   gfx_dict, idx, running, exited, outs, cfgFile, rrdFiles, stderr,
                   saved, run, runStart, ref, harness, written>>

\* gen_html_index(), and the end of main.
GenHtmlIndex ==
    /\ pc = "gen_html_index"
    /\ html' = html \o HtmlPages(pol_dict, ARGS)
    /\ stderr' = Dbug(stderr, ARGS, "END debugging output to STDERR")
    /\ pc' = "done"
    /\ UNCHANGED <<argv, ARGS, clock, STR_DATETIME, STR_EPOCTIME, exc, cfg_dict,
                   gfx_dict, pol_dict, idx, running, exited, outs, cfgFile, rrdFiles,
                   cmds, saved, run, runStart, ref, harness, written>>

\* The script is invoked again, gap ticks later.  With repeat, the
\* configuration file is first put back as the last invocation found it, and
\* the pings of the new invocation give the outputs they gave then.
Invoke(repeat, gap) ==
    /\ pc \in {"done", "crashed"}
    /\ run < MaxRuns
    /\ repeat = harness
    /\ repeat => saved # << >>
    /\ run' = run + 1
    /\ clock' = clock + gap
    /\ STR_DATETIME' = StrDatetime(clock + gap)
    /\ STR_EPOCTIME' = StrEpoch(clock + gap)
    /\ ref' = IF repeat
              THEN <<[start |-> runStart, outs |-> outs, saved |-> saved[1]]>>
              ELSE << >>
    /\ cfgFile' = IF repeat THEN runStart ELSE cfgFile
    /\ runStart' = IF repeat THEN runStart ELSE cfgFile
    /\ ARGS' = argv
    /\ pc' = "main"
    /\ exc' = ""
    /\ cfg_dict' = << >>
    /\ gfx_dict' = << >>
    /\ pol_dict' = << >>
    /\ idx' = 1
    /\ running' = {}
    /\ exited' = {}
    /\ outs' = << >>
    /\ cmds' = << >>
    /\ stderr' = << >>
    /\ html' = << >>
    /\ saved' = << >>
    /\ written' = IF repeat THEN << >> ELSE written
    /\ UNCHANGED <<argv, rrdFiles, harness>>

Next ==
    \/ Main
    \/ ReadConfig
    \/ \E created \in BOOLEAN : VerifyRrd(created)
    \/ Launch
    \/ \E target \in running : ProbeExit(target)
    \/ Wait
    \/ \E name \in OutputNames : Process(name)
    \/ \E delay \in PingDelays : CalcUptimeStep(delay)
    \/ WriteConfig
    \/ \E updated \in BOOLEAN : UpdateDatabase(updated)
    \/ GenGraphs
    \/ GenHtmlIndex
    \/ \E repeat \in BOOLEAN, gap \in RunGaps : Invoke(repeat, gap)

Spec == Init /\ [][Next]_vars

SpecFirstRun == InitFirstRun /\ [][Next]_vars

SpecRepeat == InitRepeat /\ [][Next]_vars

SpecPaths == InitPaths /\ [][Next]_vars

SpecUptime == InitUptime /\ [][Next]_vars

\* ------------------------------------------------------------------------
\* Vocabulary of the properties
\* ------------------------------------------------------------------------
\* The kinds of the tokens of a standard output, in order of appearance.
TokenKinds(out) ==
    LET toks == SelectSeq(out, LAMBDA lex : lex.kind # "TEXT")
    IN  [i \in 1..Len(toks) |-> toks[i].kind]

\* The loss percentage a standard output reports.
LossOf(out) ==
    IntOf(out[CHOOSE i \in 1..Len(out) : out[i].kind = "LOSS"].v[1])

\* Standard output in the format ping prints for an IPv4 target: the header
\* with host and address, the packet counts and the loss, and the round trip
\* times unless every packet was lost.
ExpectedFormat(out) ==
    \/ TokenKinds(out) = <<"HOST", "IP", "TX", "RX", "LOSS", "RTT">>
    \/ TokenKinds(out) = <<"HOST", "IP", "TX", "RX", "LOSS">> /\ LossOf(out) = 100

\* The output read from the ping of a target in this invocation.
OutputOf(target) == PingOutput(Get(outs, target))

\* The probe of a target failed: a launch error on standard error, 100%
\* packet loss, or output that cannot be parsed.
ProbeFailed(target) ==
    \/ OutputOf(target).err # << >>
    \/ ~ExpectedFormat(OutputOf(target).out)
    \/ LossOf(OutputOf(target).out) = 100

RttFields == {"MINRTT", "AVGRTT", "MAXRTT", "MDEV"}

\* The Cycle Sample of a target says unavailable: availability 0, RTT unknown.
SampleUnavailable(target) ==
    LET e == Get(pol_dict, target)
    IN  /\ Has(e, "AVAIL") /\ Get(e, "AVAIL") = <<"0">>
        /\ \A f \in RttFields : Has(e, f) /\ Get(e, f) = UNKNOWN

\* The targets of a configuration file's content.
TargetsIn(content) == JsonLoad(content)[1]

\* The graph interval definitions of a configuration file's content.
GraphsIn(content) == JsonLoad(content)[2]

\* The invocation has read and parsed the ping of the target.
Processed(target) == Has(outs, target) /\ Has(pol_dict, target)

\* ------------------------------------------------------------------------
\* Properties
\* ------------------------------------------------------------------------
\* C1: after a cycle in which the probe of a target failed, the LASTFAIL the
\* cycle saved for that target in the configuration file is the cycle's
\* timestamp.
C1_SavedLastFailIsNow ==
    saved # << >> =>
        \A target \in Keys(outs) :
            ProbeFailed(target) =>
                Get(Get(TargetsIn(saved[1]), target), "LASTFAIL") = STR_DATETIME

\* C2: a target whose ping wrote to standard error, or reported 100% packet
\* loss in the expected format, has availability 0 and the four RTT fields
\* UNKNOWN in its Cycle Sample; standard error decides whatever standard
\* output holds.
C2_ErrorOrTotalLossIsUnavailable ==
    \A target \in Keys(outs) :
        ( \/ OutputOf(target).err # << >>
          \/ /\ ExpectedFormat(OutputOf(target).out)
             /\ LossOf(OutputOf(target).out) = 100 )
        => SampleUnavailable(target)

\* C2 happens: a ping that wrote to standard error and printed full
\* statistics was parsed and its target is unavailable.
C2_Witness ==
    \E target \in Keys(outs) :
        /\ OutputOf(target).err # << >>
        /\ ExpectedFormat(OutputOf(target).out)
        /\ LossOf(OutputOf(target).out) = 0
        /\ SampleUnavailable(target)

\* C3: a target whose ping printed the expected format with loss L < 100 and
\* nothing on standard error has availability 100 - L, and its LASTFAIL is
\* the one the configuration file held before the cycle, in the polling copy,
\* in cfg_dict and in the configuration the cycle saves.
C3_AvailabilityAndLastFailKept ==
    \A target \in Keys(outs) :
        LET o == OutputOf(target)
        IN  ( /\ o.err = << >>
              /\ ExpectedFormat(o.out)
              /\ LossOf(o.out) < 100
              /\ runStart # << >> )
            => LET before == Get(Get(TargetsIn(runStart[1]), target), "LASTFAIL")
               IN  /\ Get(Get(pol_dict, target), "AVAIL") = StrOf(100 - LossOf(o.out))
                   /\ (LossOf(o.out) = 0 => Get(Get(pol_dict, target), "AVAIL") = <<"1", "0", "0">>)
                   /\ Get(Get(pol_dict, target), "LASTFAIL") = before
                   /\ Get(Get(cfg_dict, target), "LASTFAIL") = before
                   /\ saved # << >> =>
                          Get(Get(TargetsIn(saved[1]), target), "LASTFAIL") = before

\* C3 happens: a ping with 40% loss was parsed and the cycle saved.
C3_Witness ==
    \E target \in Keys(outs) :
        /\ OutputOf(target).err = << >>
        /\ ExpectedFormat(OutputOf(target).out)
        /\ LossOf(OutputOf(target).out) = 40
        /\ Get(Get(pol_dict, target), "AVAIL") = <<"6", "0">>
        /\ saved # << >>

\* C4: a target whose ping printed, with nothing on standard error, output
\* that is not in the expected format is treated like a launch error: its
\* Cycle Sample says unavailable, the run is not aborted, and
\* update_database finds its AVGRTT and AVAIL.
C4_UnexpectedOutputIsUnavailable ==
    \A target \in Keys(outs) :
        ( /\ OutputOf(target).err = << >>
          /\ ~ExpectedFormat(OutputOf(target).out) )
        => /\ exc = ""
           /\ SampleUnavailable(target)

\* C5: a create or update command of rrdtool that exits with a failure
\* status does not end the invocation with an error.
C5_ToolFailureSwallowed ==
    (\E i \in 1..Len(cmds) :
        cmds[i].verb \in {"create", "update"} /\ cmds[i].status # 0)
    => exc = ""

\* The database file at the path holds exactly the two series of each target.
RrdMatches(path, cfgdic) ==
    /\ Has(rrdFiles, path)
    /\ Range(Get(rrdFiles, path).ds) = Range(DsFor(SortedKeys(cfgdic)))

\* C6: when the cycle's update command is issued, either the database file
\* matched the targets all along and no create command was issued, or a
\* create command listing the current targets was issued before it.
C6_CreateBeforeUpdateUnlessMatching ==
    \A i \in 1..Len(cmds) :
        cmds[i].verb = "update" =>
            LET creates == {j \in 1..(i - 1) : cmds[j].verb = "create"}
            IN  IF creates = {}
                THEN RrdMatches(ARGS.dbfile, cfg_dict)
                ELSE \A j \in creates :
                         Range(DsOfCreate(cmds[j].cmd)) = Range(DsFor(SortedKeys(cfg_dict)))

\* Two target sets agree on every target and every field outside exempt.
SameTargetFields(a, b, exempt) ==
    /\ Keys(a) = Keys(b)
    /\ \A target \in Keys(a) :
           LET ea == Get(a, target)
               eb == Get(b, target)
           IN  \A f \in (Keys(ea) \cup Keys(eb)) \ exempt :
                   Has(ea, f) /\ Has(eb, f) /\ Get(ea, f) = Get(eb, f)

\* C7, as stated: an invocation repeated on the same starting configuration
\* with the same ping outputs saves the same target fields, LASTPOLL aside.
C7_RepeatSameButLastPoll ==
    (ref # << >> /\ saved # << >>) =>
        SameTargetFields(TargetsIn(ref[1].saved), TargetsIn(saved[1]), {"LASTPOLL"})

\* C7, amended: the saved target fields agree except LASTPOLL and UPTIME,
\* and except LASTFAIL when there was no configuration file to start from.
C7_RepeatSameButTimes ==
    (ref # << >> /\ saved # << >>) =>
        SameTargetFields(TargetsIn(ref[1].saved), TargetsIn(saved[1]),
            {"LASTPOLL", "UPTIME"}
                \cup (IF ref[1].start = NoFile THEN {"LASTFAIL"} ELSE {}))

\* C7 happens: a repeated invocation saved, a ping of it had failed, and a
\* target carries a field the script does not know.
C7_Witness ==
    /\ ref # << >>
    /\ saved # << >>
    /\ saved[1] # ref[1].saved
    /\ \E target \in Keys(outs) : ProbeFailed(target)
    /\ \E target \in Keys(cfg_dict) : Has(Get(cfg_dict, target), "NOTE")

\* The graph interval definitions are in ascending order of int(step).
AscendingSteps(gfxdic) ==
    \A i, j \in 1..Len(gfxdic) :
        i < j => IntOf(Get(gfxdic[i][2], "step")) <= IntOf(Get(gfxdic[j][2], "step"))

\* read_config has just loaded, without rewriting it, a file the script wrote.
LoadedBack ==
    /\ pc = "verify_rrd"
    /\ written # << >>
    /\ cfgFile = runStart

\* C8: loading back a configuration the script saved gives the same targets
\* with every field, and the same graph interval definitions, in ascending
\* order of their integer step.
C8_SaveLoadRoundTrip ==
    LoadedBack =>
        /\ cfg_dict = written[1].cfgdic
        /\ Keys(gfx_dict) = Keys(written[1].gfxdic)
        /\ \A k \in Keys(gfx_dict) : Get(gfx_dict, k) = Get(written[1].gfxdic, k)
        /\ AscendingSteps(gfx_dict)

\* C8 happens: the configuration loaded back has a field the script does not
\* know and intervals that were out of order when they were saved.
C8_Witness ==
    /\ LoadedBack
    /\ \E target \in Keys(cfg_dict) : Has(Get(cfg_dict, target), "NOTE")
    /\ ~AscendingSteps(written[1].gfxdic)

\* The positions of main after read_config returned.
AfterReadConfig ==
    pc \in {"verify_rrd", "launch", "wait", "process", "calc_uptime", "save"}

\* C9: an invocation that found no configuration file has, from the return
\* of read_config on, a file with exactly the three default targets and the
\* five default intervals; no ping runs before that; and the create command
\* declares exactly the latency and availability series of the three targets.
C9_FirstRunDefaults ==
    runStart = NoFile =>
        /\ pc \in {"main", "read_config"} => running \cup exited = {}
        /\ AfterReadConfig =>
               /\ cfgFile # NoFile
               /\ Keys(TargetsIn(cfgFile[1])) = {"Cloudflare", "Google", "OpenDNS"}
               /\ Len(TargetsIn(cfgFile[1])) = 3
               /\ Keys(GraphsIn(cfgFile[1])) =
                      {"1mx12h", "5mx24h", "30mx7d", "2hx28d", "1dx365d"}
               /\ Len(GraphsIn(cfgFile[1])) = 5
        /\ \A i \in 1..Len(cmds) :
               cmds[i].verb = "create" =>
                   DsOfCreate(cmds[i].cmd) =
                       << <<"Cloudflare", "-AVRTT">>, <<"Cloudflare", "-AVAIL">>,
                          <<"Google", "-AVRTT">>, <<"Google", "-AVAIL">>,
                          <<"OpenDNS", "-AVRTT">>, <<"OpenDNS", "-AVAIL">> >>

\* C9 happens: no configuration file was found, the create command was
\* issued, and the first ping is about to be launched.
C9_Witness ==
    /\ runStart = NoFile
    /\ pc = "launch"
    /\ running \cup exited = {}
    /\ \E i \in 1..Len(cmds) : cmds[i].verb = "create"

\* The configuration file's path with only its extension substituted.
RrdPathOf(cfgpath) == [cfgpath EXCEPT ![Len(cfgpath)] = "rrd"]

\* C10: every rrdtool command of a cycle names the configuration file's path
\* with only its extension substituted.
C10_OneDatabasePath ==
    pc # "main" =>
        \A i \in 1..Len(cmds) : cmds[i].path = RrdPathOf(ARGS.cfgfile)

\* The position of a target identifier in ascending order.
Rank(target) == IndexOf(KeyOrder, target)

\* C11: every update command lists after --template, in ascending order of
\* the target identifiers, the latency and the availability series of each
\* target of the polling copy, and after the timestamp one value for each
\* name in the same order: the target's AVGRTT, then its AVAIL.
C11_UpdateNamesAndValuesAligned ==
    \A i \in 1..Len(cmds) :
        cmds[i].verb = "update" =>
            LET names == TemplateOf(cmds[i].cmd)
                row   == RowOf(cmds[i].cmd)
                n     == Cardinality(Keys(pol_dict))
            IN  /\ Len(names) = 2 * n
                /\ Len(row) = 1 + Len(names)
                /\ row[1] = STR_EPOCTIME
                /\ {names[2 * k][1] : k \in 1..n} = Keys(pol_dict)
                /\ \A k \in 1..n :
                       LET target == names[2 * k - 1][1]
                       IN  /\ names[2 * k - 1] = <<target, "-AVRTT">>
                           /\ names[2 * k] = <<target, "-AVAIL">>
                           /\ row[2 * k] = Get(Get(pol_dict, target), "AVGRTT")
                           /\ row[2 * k + 1] = Get(Get(pol_dict, target), "AVAIL")
                           /\ k < n => Rank(target) < Rank(names[2 * k + 1][1])

\* C11 happens: an update command was built for two targets or more, one
\* with a measured latency and one without.
C11_Witness ==
    /\ \E i \in 1..Len(cmds) : cmds[i].verb = "update"
    /\ Cardinality(Keys(pol_dict)) >= 2
    /\ \E a, b \in Keys(pol_dict) :
           /\ Has(Get(pol_dict, a), "AVGRTT")
           /\ Has(Get(pol_dict, b), "AVGRTT")
           /\ Get(Get(pol_dict, a), "AVGRTT") = UNKNOWN
           /\ IsDigits(Get(Get(pol_dict, b), "AVGRTT"))
           /\ Get(Get(pol_dict, b), "AVAIL") # Get(Get(pol_dict, b), "AVGRTT")

\* The targets as read_config loaded them, while main has not saved.
Loaded == TargetsIn(cfgFile[1])

\* A target set without the child-process handles.
RECURSIVE WithoutHandles(_)
WithoutHandles(d) ==
    IF Len(d) = 0 THEN << >>
    ELSE << <<d[1][1], Del(d[1][2], "PID")>> >> \o WithoutHandles(Tail(d))

\* Pings were launched and not all of them have exited.
InFlight == pc \in {"launch", "wait"} /\ exited # Keys(pol_dict)

\* The order of ping_hosts: every ping is launched before the first wait,
\* and a ping's output is parsed only once every ping has exited.
LaunchWaitProcess ==
    /\ pc = "wait" => running \cup exited = Keys(pol_dict)
    /\ (pc = "process" \/ outs # << >>) =>
           (running = {} /\ exited = Keys(pol_dict))

\* C12, as stated: every ping is launched before the first wait, nothing is
\* parsed before every ping has exited, and until then neither cfg_dict nor
\* the polling copy is written to.
C12_NothingWrittenBeforeBarrier ==
    /\ LaunchWaitProcess
    /\ InFlight => (outs = << >> /\ cfg_dict = Loaded /\ pol_dict = Loaded)

\* C12, amended: every ping is launched before the first wait, nothing is
\* parsed before every ping has exited, and until then cfg_dict is not
\* written to and the polling copy receives only the child-process handles.
C12_OnlyHandlesBeforeBarrier ==
    /\ LaunchWaitProcess
    /\ InFlight =>
           /\ outs = << >>
           /\ cfg_dict = Loaded
           /\ WithoutHandles(pol_dict) = Loaded
           /\ \A target \in Keys(pol_dict) :
                  Has(Get(pol_dict, target), "PID") <=> target \in running \cup exited

\* C12 happens: the control thread waits while one ping has exited and
\* another still runs.
C12_Witness ==
    /\ pc = "wait"
    /\ running # {}
    /\ exited # {}
    /\ \A target \in Keys(pol_dict) : Has(Get(pol_dict, target), "PID")

\* The digits of text that end at position i.
RECURSIVE DigitsBefore(_, _)
DigitsBefore(text, i) ==
    IF i = 0 \/ text[i] \notin DigitSet THEN << >>
    ELSE DigitsBefore(text, i - 1) \o <<text[i]>>

\* Whether an uptime string names a unit, and the value it displays for it
\* (0 for a unit it does not name).
Named(text, unit) == IndexOf(text, unit) # 0

Displayed(text, unit) ==
    IF Named(text, unit)
    THEN IntOf(DigitsBefore(text, IndexOf(text, unit) - 1))
    ELSE 0

\* calc_uptime has run in this invocation and main has not ended since.
UptimeComputed ==
    pc \in {"save", "update_database", "gen_graphs", "gen_html_index", "done"}

\* C13: the uptime string of every target ends with a period, names a unit
\* only with a displayed value that is not zero, displays hours within 0..11
\* and minutes and seconds within 0..59, and what it displays is the time
\* since LASTFAIL to the second: 12-hour blocks, hours, minutes, seconds.
C13_UptimeUnitsInRange ==
    UptimeComputed =>
        \A target \in Keys(cfg_dict) :
            LET text    == Get(Get(cfg_dict, target), "UPTIME")
                blocks  == Displayed(text, " days, ")
                hours   == Displayed(text, " hours, ")
                mins    == Displayed(text, " minutes, ")
                secs    == Displayed(text, " seconds")
                elapsed == clock - Strptime(Get(Get(cfg_dict, target), "LASTFAIL"))
                shown   == ((blocks * 12 + hours) * 60 + mins) * 60 + secs
            IN  /\ text[Len(text)] = "."
                /\ \A unit \in {" days, ", " hours, ", " minutes, ", " seconds"} :
                       Named(text, unit) => Displayed(text, unit) > 0
                /\ hours <= 11
                /\ mins <= 59
                /\ secs <= 59
                /\ shown * TicksPerSec - elapsed < TicksPerSec
                /\ elapsed - shown * TicksPerSec < TicksPerSec

\* The targets the invocation loaded: those of the file it found, the
\* defaults when it found none.
LoadedAtStart ==
    IF runStart = NoFile THEN DefaultTargets(STR_DATETIME) ELSE TargetsIn(runStart[1])

\* The fields a cycle adds to a target of the configuration.
CycleFields == {"LASTPOLL", "UPTIME"}

\* The fields of a cycle's sample and the child-process handle.
SampleFields ==
    {"PID", "IP", "TX", "RX", "AVAIL", "MINRTT", "AVGRTT", "MAXRTT", "MDEV"}

\* A target set has the loaded target identifiers, and for each target no
\* field besides the loaded ones, LASTPOLL and UPTIME.
OnlyLoadedAndCycleFields(targets) ==
    /\ Keys(targets) = Keys(LoadedAtStart)
    /\ Len(targets) = Len(LoadedAtStart)
    /\ \A target \in Keys(targets) :
           Keys(Get(targets, target))
               \subseteq Keys(Get(LoadedAtStart, target)) \cup CycleFields

\* C14: from read_config on, cfg_dict holds the loaded targets and no field
\* besides the loaded ones, LASTPOLL and UPTIME, whatever the polling copy
\* receives; the configuration a cycle saved holds the loaded targets with
\* the loaded fields, LASTPOLL and UPTIME, and no other field.
C14_TransientDataNotSaved ==
    /\ pc \notin {"main", "read_config"} => OnlyLoadedAndCycleFields(cfg_dict)
    /\ saved # << >> =>
           /\ OnlyLoadedAndCycleFields(TargetsIn(saved[1]))
           /\ \A target \in Keys(LoadedAtStart) :
                  Keys(Get(TargetsIn(saved[1]), target))
                      = Keys(Get(LoadedAtStart, target)) \cup CycleFields

\* C14 happens: a cycle has ended, the polling copy of a target that was
\* loaded without LASTPOLL holds the handle field, a sample and the path of
\* a graph, and the configuration was saved.
C14_Witness ==
    /\ pc = "done"
    /\ saved # << >>
    /\ \E target \in Keys(pol_dict) :
           /\ ~Has(Get(LoadedAtStart, target), "LASTPOLL")
           /\ SampleFields \subseteq Keys(Get(pol_dict, target))
           /\ \E f \in Keys(Get(pol_dict, target)) :
                  f \notin SampleFields \cup Keys(Get(TargetsIn(saved[1]), target))

====
